---------------------------- MODULE Spec2Model ----------------------------
(***************************************************************************)
(* Model of custom_components/weatherflow/weather.py: the WeatherFlow      *)
(* weather entity of Home Assistant.  Two entities (daily, hourly) are     *)
(* built by async_setup_entry over two update coordinators; their          *)
(* properties read the coordinators' current snapshots.                    *)
(*                                                                         *)
(* Python values are tagged records: None, Str(s), Num(n), an instant, a   *)
(* list result, or a raised exception.                                     *)
(***************************************************************************)
EXTENDS Integers, Sequences, FiniteSets, TLC

VARIABLES
    CONDITION_CLASSES,      \* the condition table, a sequence of [key, codes]
    is_metric,              \* hass.config.units.is_metric
    coordinator,            \* [data]: the entity reads nothing else of it
    forecast_coordinator,   \* [data, last_update_success]
    entities,               \* <<>> before setup, then the two entities
    ret                     \* what the latest step returned, when it was a read

vars == <<CONDITION_CLASSES, is_metric, coordinator, forecast_coordinator,
          entities, ret>>

-----------------------------------------------------------------------------
(* Bounds *)

\* longest forecast list a refresh delivers
MaxLen == 2
\* most buckets of a condition table
MaxBuckets == 2
\* largest wind_avg, in tenths of a m/s, of the wide wind inputs
MaxWindTenths == 104

-----------------------------------------------------------------------------
(* Python values *)

None == [t |-> "None"]
Str(s) == [t |-> "str", s |-> s]
Num(n) == [t |-> "num", n |-> n]
Raise(e) == [t |-> "raise", exc |-> e]
List(items) == [t |-> "list", obj |-> "new", items |-> items]

\* v is a raised exception, not a value (a mapping built by forecast has no tag)
IsRaise(v) == "t" \in DOMAIN v /\ v.t = "raise"

\* coordinator.data before the first successful refresh
NoData == [t |-> "None"]


-----------------------------------------------------------------------------
(* Module constants *)

_WEATHER_DAILY == <<"w","e","a","t","h","e","r","_","d","a","i","l","y">>
_WEATHER_HOURLY == <<"w","e","a","t","h","e","r","_","h","o","u","r","l","y">>

WEATHER_TYPES ==
    << [key |-> _WEATHER_DAILY,  name |-> "Day based Forecast"],
       [key |-> _WEATHER_HOURLY, name |-> "Hourly based Forecast"] >>

TEMP_CELSIUS == Str("C")

\* Python's `a in b` on two strings: a is a substring of b
StrIn(a, b) ==
    \E i \in 0..(Len(b) - Len(a)) : SubSeq(b, i + 1, i + Len(a)) = a

-----------------------------------------------------------------------------
(* format_condition *)

\* Python's `condition in v` for a list v of strings; None is in no list
CodeIn(condition, v) == condition.t = "str" /\ condition.s \in v

RECURSIVE FirstMatch(_, _, _)
\* next(...) over the generator: the first item, in dict order, that matches
FirstMatch(items, condition, i) ==
    IF i > Len(items) THEN None
    ELSE IF CodeIn(condition, items[i].codes) THEN Str(items[i].key)
    ELSE FirstMatch(items, condition, i + 1)

RECURSIVE LastMatch(_, _, _)
\* a scan that keeps the last matching item instead of stopping at the first
LastMatch(items, condition, i) ==
    IF i < 1 THEN None
    ELSE IF CodeIn(condition, items[i].codes) THEN Str(items[i].key)
    ELSE LastMatch(items, condition, i - 1)

format_condition_last(condition) ==
    LastMatch(CONDITION_CLASSES, condition, Len(CONDITION_CLASSES))

\* next() without its default: an exhausted generator raises
format_condition_no_default(condition) ==
    LET k == FirstMatch(CONDITION_CLASSES, condition, 1)
    IN  IF k = None THEN Raise("StopIteration") ELSE k

format_condition(condition) == FirstMatch(CONDITION_CLASSES, condition, 1)

-----------------------------------------------------------------------------
(* utc_from_timestamp: epoch seconds to a timezone-aware UTC datetime *)

\* proleptic Gregorian date of a day count since 1970-01-01
CivilFromDays(days) ==
    LET z   == days + 719468
        era == z \div 146097
        doe == z - era * 146097
        yoe == (doe - (doe \div 1460) + (doe \div 36524) - (doe \div 146096)) \div 365
        doy == doe - (365 * yoe + (yoe \div 4) - (yoe \div 100))
        mp  == (5 * doy + 2) \div 153
        d   == doy - ((153 * mp + 2) \div 5) + 1
        m   == IF mp < 10 THEN mp + 3 ELSE mp - 9
        y   == yoe + era * 400 + (IF m <= 2 THEN 1 ELSE 0)
    IN  [year |-> y, month |-> m, day |-> d]

utc_from_timestamp(timestamp) ==
    IF timestamp.t # "num" THEN Raise("TypeError")
    ELSE LET date == CivilFromDays(timestamp.n \div 86400)
             sod  == timestamp.n % 86400
         IN  [t |-> "datetime", tzinfo |-> "UTC",
              year |-> date.year, month |-> date.month, day |-> date.day,
              hour |-> sod \div 3600, minute |-> (sod % 3600) \div 60,
              second |-> sod % 60]

-----------------------------------------------------------------------------
(* Attribute access *)

\* getattr(obj, name) without a default: None has no attributes
GetAttr(obj, name) ==
    IF obj = NoData THEN Raise("AttributeError") ELSE obj[name]


-----------------------------------------------------------------------------
(* WeatherFlowWeatherEntity: construction *)

\* the test made against the other key
DailyForecastOf_hourly(description) == StrIn(description.key, _WEATHER_HOURLY)

\* self.entity_description.key in _WEATHER_DAILY
DailyForecastOf(description) == StrIn(description.key, _WEATHER_DAILY)

\* __init__: availability and horizon are computed once, here
NewEntity(d) ==
    [ description     |-> d,
      _attr_available |-> forecast_coordinator.last_update_success,
      daily_forecast  |-> DailyForecastOf(WEATHER_TYPES[d]),
      _is_metric      |-> is_metric ]

-----------------------------------------------------------------------------
(* WeatherFlowWeatherEntity: current conditions *)

\* the snapshot the other current-conditions properties read
ConditionSource_observation == coordinator.data

\* the snapshot the condition property reads
ConditionSource == forecast_coordinator.data

condition(self) ==
    LET icon == GetAttr(ConditionSource, "icon")
    IN  IF IsRaise(icon) THEN icon ELSE format_condition(icon)

temperature(self) == GetAttr(coordinator.data, "air_temperature")

temperature_unit(self) == TEMP_CELSIUS

humidity(self) == GetAttr(coordinator.data, "relative_humidity")

pressure(self) == GetAttr(coordinator.data, "sea_level_pressure")

\* Python's round() on num/den: to the nearest integer, a tie to the even one
PyRound(num, den) ==
    LET q == num \div den
        r == num % den
    IN  IF 2 * r < den THEN q
        ELSE IF 2 * r > den THEN q + 1
        ELSE IF q % 2 = 0 THEN q ELSE q + 1

\* int() alone: the fraction is cut off, not rounded
wind_speed_truncating(self) ==
    LET wind_avg == GetAttr(coordinator.data, "wind_avg")
    IN  IF IsRaise(wind_avg) THEN wind_avg
        ELSE IF wind_avg = None THEN None
        ELSE IF self._is_metric THEN Num((wind_avg.n * 36) \div 100)
        ELSE Num(wind_avg.n \div 10)

\* wind_avg is held in tenths of a m/s (the station's resolution), so
\* wind_avg * 3.6 is tenths * 36 / 100
wind_speed(self) ==
    LET wind_avg == GetAttr(coordinator.data, "wind_avg")
    IN  IF IsRaise(wind_avg) THEN wind_avg
        ELSE IF wind_avg = None THEN None
        ELSE IF self._is_metric THEN Num(PyRound(wind_avg.n * 36, 100))
        ELSE Num(PyRound(wind_avg.n, 10))

wind_bearing(self) == GetAttr(coordinator.data, "wind_direction")

visibility(self) == GetAttr(coordinator.data, "visibility")

-----------------------------------------------------------------------------
(* WeatherFlowWeatherEntity: forecast *)

\* the mapping appended for one daily item; a raise in any value aborts
DailyEntry(item) ==
    LET sunrise == utc_from_timestamp(item.sunrise)
        sunset  == utc_from_timestamp(item.sunset)
    IN  IF IsRaise(sunrise) THEN sunrise
        ELSE IF IsRaise(sunset) THEN sunset
        ELSE [ ATTR_FORECAST_TIME                      |-> item.utc_time,
               ATTR_FORECAST_TEMP                      |-> item.air_temp_high,
               ATTR_FORECAST_TEMP_LOW                  |-> item.air_temp_low,
               ATTR_FORECAST_PRECIPITATION             |-> item.precip,
               ATTR_FORECAST_PRECIPITATION_PROBABILITY |-> item.precip_probability,
               ATTR_FORECAST_CONDITION                 |-> format_condition(item.icon),
               ATTR_FORECAST_WIND_SPEED                |-> item.wind_avg,
               ATTR_FORECAST_WIND_BEARING              |-> item.wind_direction,
               ATTR_FORECAST_SUNRISE                   |-> sunrise,
               ATTR_FORECAST_SUNSET                    |-> sunset ]

HourlyEntry(item) ==
    [ ATTR_FORECAST_TIME                      |-> item.utc_time,
      ATTR_FORECAST_TEMP                      |-> item.air_temperature,
      ATTR_FORECAST_PRECIPITATION             |-> item.precip,
      ATTR_FORECAST_PRECIPITATION_PROBABILITY |-> item.precip_probability,
      ATTR_FORECAST_CONDITION                 |-> format_condition(item.icon),
      ATTR_FORECAST_WIND_SPEED                |-> item.wind_avg,
      ATTR_FORECAST_WIND_GUST                 |-> item.wind_gust,
      ATTR_FORECAST_WIND_BEARING              |-> item.wind_direction,
      ATTR_FORECAST_FEELS_LIKE                |-> item.feels_like,
      ATTR_FORECAST_UV                        |-> item.uv ]

RECURSIVE DailyLoop(_, _, _)
\* for item in forecast_data_daily: data.append({...})
DailyLoop(items, i, data) ==
    IF i > Len(items) THEN List(data)
    ELSE LET entry == DailyEntry(items[i])
         IN  IF IsRaise(entry) THEN entry
             ELSE DailyLoop(items, i + 1, Append(data, entry))

RECURSIVE HourlyLoop(_, _, _)
\* for item in forecast_data_hourly: data.append({...})
HourlyLoop(items, i, data) ==
    IF i > Len(items) THEN List(data)
    ELSE HourlyLoop(items, i + 1, Append(data, HourlyEntry(items[i])))

\* getattr on the forecast snapshot raises before any loop runs
forecast(self) ==
    IF self.daily_forecast
    THEN LET forecast_data_daily == GetAttr(forecast_coordinator.data, "forecast_daily")
         IN  IF forecast_coordinator.data = NoData THEN forecast_data_daily
             ELSE DailyLoop(forecast_data_daily, 1, <<>>)
    ELSE LET forecast_data_hourly == GetAttr(forecast_coordinator.data, "forecast_hourly")
         IN  IF forecast_coordinator.data = NoData THEN forecast_data_hourly
             ELSE HourlyLoop(forecast_data_hourly, 1, <<>>)

-----------------------------------------------------------------------------
(* Inputs: what the API client and the coordinators deliver *)

SeqsUpTo(S, n) == UNION { [1..k -> S] : k \in 0..n }

\* wind_avg of w tenths of a m/s
Tenths(w) == [t |-> "tenths", n |-> w]

Observation(temp, hum, press, wind, bearing, vis, icon) ==
    [ t |-> "observation",
      air_temperature    |-> temp,
      relative_humidity  |-> hum,
      sea_level_pressure |-> press,
      wind_avg           |-> wind,
      wind_direction     |-> bearing,
      visibility         |-> vis,
      icon               |-> icon ]

DailyItem(n, icon, sunrise, sunset) ==
    [ utc_time |-> Num(1000 + n), air_temp_high |-> Num(20 + n),
      air_temp_low |-> Num(10 + n), precip |-> Num(n),
      precip_probability |-> Num(50 + n), icon |-> icon,
      wind_avg |-> Num(3 + n), wind_direction |-> Num(180 + n),
      sunrise |-> sunrise, sunset |-> sunset ]

HourlyItem(n, icon) ==
    [ utc_time |-> Num(2000 + n), air_temperature |-> Num(15 + n),
      precip |-> Num(n), precip_probability |-> Num(40 + n), icon |-> icon,
      wind_avg |-> Num(4 + n), wind_gust |-> Num(7 + n),
      wind_direction |-> Num(90 + n), feels_like |-> Num(13 + n),
      uv |-> Num(n) ]

ForecastData(icon, forecast_daily, forecast_hourly) ==
    [ t |-> "forecast", icon |-> icon,
      forecast_daily |-> forecast_daily, forecast_hourly |-> forecast_hourly ]

\* vendor codes, canonical keys, and a code no table lists
Codes == {"clear-day", "rainy"}
Keys == {"sunny", "rainy", "cloudy"}
Icons == {None, Str("bogus")} \cup { Str(c) : c \in Codes }

\* every table of up to MaxBuckets buckets with distinct keys
Tables ==
    { T \in SeqsUpTo([key : Keys, codes : SUBSET Codes], MaxBuckets) :
        \A i, j \in DOMAIN T : i # j => T[i].key # T[j].key }

\* the table const.py defines, cut to two buckets
DefaultTable ==
    << [key |-> "sunny", codes |-> {"clear-day"}],
       [key |-> "rainy", codes |-> {"rainy"}] >>

Observations ==
    { Observation(Num(21), Num(55), Num(1013), Tenths(100), Num(270), Num(10),
                  Str("rainy")),
      Observation(None, None, None, None, None, None, None),
      Observation(Num(-4), Num(80), None, Tenths(25), Num(0), None,
                  Str("clear-day")) }

DailyItems ==
    { DailyItem(1, Str("clear-day"), Num(1700000000), Num(1700040000)),
      DailyItem(2, None, None, Num(1700126400)) }

HourlyItems ==
    { HourlyItem(1, Str("rainy")) }

ForecastSnapshots ==
    { ForecastData(i, d, h) :
        i \in {None, Str("clear-day")},
        d \in SeqsUpTo(DailyItems, MaxLen),
        h \in SeqsUpTo(HourlyItems, MaxLen) }

-----------------------------------------------------------------------------
(* State machine *)

NoRead == [t |-> "none"]

Returned(e, op, value) == [t |-> "read", entity |-> e, op |-> op, value |-> value]

Init ==
    /\ CONDITION_CLASSES = DefaultTable
    /\ is_metric \in BOOLEAN
    /\ coordinator = [data |-> NoData]
    /\ forecast_coordinator = [data |-> NoData, last_update_success |-> TRUE]
    /\ entities = <<>>
    /\ ret = NoRead

\* async_setup_entry: one entity per description of WEATHER_TYPES
Setup ==
    /\ entities = <<>>
    /\ entities' = [d \in DOMAIN WEATHER_TYPES |-> NewEntity(d)]
    /\ ret' = NoRead
    /\ UNCHANGED <<CONDITION_CLASSES, is_metric, coordinator, forecast_coordinator>>

\* the coordinator fetched a new observation
RefreshCoordinator(obs) ==
    /\ coordinator' = [data |-> obs]
    /\ ret' = NoRead
    /\ UNCHANGED <<CONDITION_CLASSES, is_metric, forecast_coordinator, entities>>

\* the coordinator's fetch failed: the old snapshot stays
RefreshCoordinatorFailed ==
    /\ coordinator' = [data |-> coordinator.data]
    /\ ret' = NoRead
    /\ UNCHANGED <<CONDITION_CLASSES, is_metric, forecast_coordinator, entities>>

RefreshForecast(snapshot) ==
    /\ forecast_coordinator' = [data |-> snapshot, last_update_success |-> TRUE]
    /\ ret' = NoRead
    /\ UNCHANGED <<CONDITION_CLASSES, is_metric, coordinator, entities>>

RefreshForecastFailed ==
    /\ forecast_coordinator' =
           [forecast_coordinator EXCEPT !.last_update_success = FALSE]
    /\ ret' = NoRead
    /\ UNCHANGED <<CONDITION_CLASSES, is_metric, coordinator, entities>>

\* a property read leaves everything but the returned value alone
Read(e, op, value) ==
    /\ e \in DOMAIN entities
    /\ ret' = Returned(e, op, value)
    /\ UNCHANGED <<CONDITION_CLASSES, is_metric, coordinator,
                   forecast_coordinator, entities>>

ReadCondition(e) == Read(e, "condition", condition(entities[e]))

ReadTemperature(e) == Read(e, "temperature", temperature(entities[e]))

ReadTemperatureUnit(e) == Read(e, "temperature_unit", temperature_unit(entities[e]))

ReadHumidity(e) == Read(e, "humidity", humidity(entities[e]))

ReadPressure(e) == Read(e, "pressure", pressure(entities[e]))

ReadWindSpeed(e) == Read(e, "wind_speed", wind_speed(entities[e]))

ReadWindBearing(e) == Read(e, "wind_bearing", wind_bearing(entities[e]))

ReadVisibility(e) == Read(e, "visibility", visibility(entities[e]))

\* a forecast that hands out the snapshot's own list and empties it for the
\* next caller
ReadForecast_draining(e) ==
    /\ e \in DOMAIN entities
    /\ forecast_coordinator.data # NoData
    /\ ret' = Returned(e, "forecast",
                       [forecast(entities[e]) EXCEPT !.obj = "forecast_data"])
    /\ forecast_coordinator' =
           [forecast_coordinator EXCEPT !.data.forecast_daily = <<>>,
                                        !.data.forecast_hourly = <<>>]
    /\ UNCHANGED <<CONDITION_CLASSES, is_metric, coordinator, entities>>

ReadForecast(e) == Read(e, "forecast", forecast(entities[e]))

EntityIds == DOMAIN WEATHER_TYPES

Next ==
    \/ Setup
    \/ \E obs \in Observations : RefreshCoordinator(obs)
    \/ RefreshCoordinatorFailed
    \/ \E snapshot \in ForecastSnapshots : RefreshForecast(snapshot)
    \/ RefreshForecastFailed
    \/ \E e \in EntityIds : ReadCondition(e)
    \/ \E e \in EntityIds : ReadTemperature(e)
    \/ \E e \in EntityIds : ReadTemperatureUnit(e)
    \/ \E e \in EntityIds : ReadHumidity(e)
    \/ \E e \in EntityIds : ReadPressure(e)
    \/ \E e \in EntityIds : ReadWindSpeed(e)
    \/ \E e \in EntityIds : ReadWindBearing(e)
    \/ \E e \in EntityIds : ReadVisibility(e)
    \/ \E e \in EntityIds : ReadForecast(e)

Spec == Init /\ [][Next]_vars


-----------------------------------------------------------------------------
(* Wind speed over the whole range of wind_avg *)

WindObservations ==
    { Observation(Num(21), Num(55), Num(1013), w, Num(270), Num(10), None) :
        w \in {None} \cup { Tenths(n) : n \in 0..MaxWindTenths } }

NextWind ==
    \/ Setup
    \/ \E obs \in WindObservations : RefreshCoordinator(obs)
    \/ \E e \in EntityIds : ReadWindSpeed(e)

SpecWind == Init /\ [][NextWind]_vars

-----------------------------------------------------------------------------
(* Condition mapping over every table *)

\* snapshots whose every timestamp is present, with icons i and j to map
CondSnapshots ==
    { ForecastData(i, << DailyItem(1, j, Num(0), Num(86399)) >>,
                      << HourlyItem(1, j), HourlyItem(2, i) >>) :
        i \in Icons, j \in Icons }

InitCond ==
    /\ CONDITION_CLASSES \in Tables
    /\ is_metric = TRUE
    /\ coordinator = [data |-> NoData]
    /\ forecast_coordinator = [data |-> NoData, last_update_success |-> TRUE]
    /\ entities = <<>>
    /\ ret = NoRead

\* a direct call of the module's function
FormatCondition(c) ==
    /\ ret' = [t |-> "read", entity |-> 0, op |-> "format_condition",
               arg |-> c, value |-> format_condition(c)]
    /\ UNCHANGED <<CONDITION_CLASSES, is_metric, coordinator,
                   forecast_coordinator, entities>>

NextCond ==
    \/ Setup
    \/ \E snapshot \in CondSnapshots : RefreshForecast(snapshot)
    \/ \E c \in Icons : FormatCondition(c)
    \/ \E e \in EntityIds : ReadCondition(e)
    \/ \E e \in EntityIds : ReadForecast(e)

SpecCond == InitCond /\ [][NextCond]_vars


-----------------------------------------------------------------------------
(* Properties *)

IsRead(op) == ret.t = "read" /\ ret.op = op

\* the buckets of the table whose code list holds c
Matching(c) ==
    { i \in DOMAIN CONDITION_CLASSES :
        c.t = "str" /\ c.s \in CONDITION_CLASSES[i].codes }

\* the records the forecast of the entity that was read iterates over
ForecastInput ==
    IF entities[ret.entity].daily_forecast
    THEN forecast_coordinator.data.forecast_daily
    ELSE forecast_coordinator.data.forecast_hourly

\* C1: format_condition(c) returns the key of the first bucket, in table
\* order, whose code set contains c; when exactly one bucket contains c the
\* result is that bucket's key.
C1_FirstMatchingKey ==
    IsRead("format_condition") =>
        /\ \A i \in Matching(ret.arg) :
              (\A j \in Matching(ret.arg) : i <= j)
                  => ret.value = Str(CONDITION_CLASSES[i].key)
        /\ Cardinality(Matching(ret.arg)) = 1
              => \A i \in Matching(ret.arg) :
                    ret.value = Str(CONDITION_CLASSES[i].key)

C1_Witness ==
    /\ IsRead("format_condition")
    /\ Matching(ret.arg) = {1, 2}
    /\ ret.value = Str(CONDITION_CLASSES[1].key)

\* C2: a code that is absent or in no bucket maps to None without a raise,
\* in format_condition, in the condition property and in the condition
\* field of every forecast entry.
C2_UnmatchedIsNone ==
    /\ (IsRead("format_condition") /\ Matching(ret.arg) = {})
          => ret.value = None
    /\ (IsRead("condition") /\ forecast_coordinator.data # NoData
          /\ Matching(forecast_coordinator.data.icon) = {})
          => ret.value = None
    /\ (IsRead("forecast") /\ forecast_coordinator.data # NoData)
          => /\ ret.value.t = "list"
             /\ \A i \in DOMAIN ForecastInput :
                   Matching(ForecastInput[i].icon) = {}
                       => ret.value.items[i].ATTR_FORECAST_CONDITION = None

C2_Witness ==
    /\ IsRead("forecast")
    /\ CONDITION_CLASSES # <<>>
    /\ ret.value.t = "list"
    /\ \E i, j \in DOMAIN ForecastInput :
          /\ ForecastInput[i].icon = None
          /\ ForecastInput[j].icon = Str("bogus")
          /\ ret.value.items[i].ATTR_FORECAST_CONDITION = None
          /\ ret.value.items[j].ATTR_FORECAST_CONDITION = None


Abs(n) == IF n < 0 THEN -n ELSE n

\* C4: wind_speed is None when wind_avg is None, whatever the metric flag;
\* otherwise it is wind_avg * 3.6 rounded to the nearest integer when the
\* flag is set and wind_avg rounded to the nearest integer when it is not
\* (10.0 gives 36 and 10).
C4_WindSpeed ==
    (IsRead("wind_speed") /\ coordinator.data # NoData) =>
        LET w == coordinator.data.wind_avg
        IN  IF w = None THEN ret.value = None
            ELSE /\ ret.value.t = "num"
                 /\ is_metric => Abs(100 * ret.value.n - 36 * w.n) <= 50
                 /\ ~is_metric => Abs(10 * ret.value.n - w.n) <= 5
                 /\ w.n = 100 => ret.value.n = (IF is_metric THEN 36 ELSE 10)

C4_Witness ==
    /\ IsRead("wind_speed")
    /\ coordinator.data # NoData
    /\ coordinator.data.wind_avg = Tenths(100)
    /\ is_metric
    /\ ret.value = Num(36)


-----------------------------------------------------------------------------
(* Properties of the entities *)

DailyFields ==
    { "ATTR_FORECAST_TIME", "ATTR_FORECAST_TEMP", "ATTR_FORECAST_TEMP_LOW",
      "ATTR_FORECAST_PRECIPITATION", "ATTR_FORECAST_PRECIPITATION_PROBABILITY",
      "ATTR_FORECAST_CONDITION", "ATTR_FORECAST_WIND_SPEED",
      "ATTR_FORECAST_WIND_BEARING", "ATTR_FORECAST_SUNRISE",
      "ATTR_FORECAST_SUNSET" }

HourlyFields ==
    { "ATTR_FORECAST_TIME", "ATTR_FORECAST_TEMP", "ATTR_FORECAST_PRECIPITATION",
      "ATTR_FORECAST_PRECIPITATION_PROBABILITY", "ATTR_FORECAST_CONDITION",
      "ATTR_FORECAST_WIND_SPEED", "ATTR_FORECAST_WIND_GUST",
      "ATTR_FORECAST_WIND_BEARING", "ATTR_FORECAST_FEELS_LIKE",
      "ATTR_FORECAST_UV" }

\* C3: for both horizons and every input sequence the forecast read returns
\* a sequence of the input's length whose i-th entry is built from the i-th
\* record; an empty input gives an empty sequence.
C3_SameLengthSameOrder ==
    (IsRead("forecast") /\ forecast_coordinator.data # NoData) =>
        /\ ret.value.t = "list"
        /\ Len(ret.value.items) = Len(ForecastInput)
        /\ \A i \in DOMAIN ForecastInput :
              ret.value.items[i].ATTR_FORECAST_TIME = ForecastInput[i].utc_time

\* the snapshot a property reads
SourceOf(op) ==
    IF op \in {"condition", "forecast"} THEN forecast_coordinator.data
    ELSE coordinator.data

\* C5: while the snapshot a property reads has not been populated, the
\* property returns None (or an empty sequence) and raises nothing.
C5_AbsentBeforeFirstRefresh ==
    (ret.t = "read" /\ ret.op # "temperature_unit" /\ SourceOf(ret.op) = NoData) =>
        \/ ret.value = None
        \/ ret.value = List(<<>>)

\* C6: in the daily forecast a record with no sunrise or sunset gives an
\* entry whose sunrise or sunset is None, and the read completes; a present
\* epoch is converted to its UTC instant.
C6_AbsentSunIsNone ==
    (IsRead("forecast") /\ forecast_coordinator.data # NoData
        /\ entities[ret.entity].daily_forecast) =>
        /\ ret.value.t = "list"
        /\ \A i \in DOMAIN ForecastInput :
              /\ ret.value.items[i].ATTR_FORECAST_SUNRISE =
                    (IF ForecastInput[i].sunrise = None THEN None
                     ELSE utc_from_timestamp(ForecastInput[i].sunrise))
              /\ ret.value.items[i].ATTR_FORECAST_SUNSET =
                    (IF ForecastInput[i].sunset = None THEN None
                     ELSE utc_from_timestamp(ForecastInput[i].sunset))

\* C7: the availability an entity surfaces is the forecast coordinator's
\* current last_update_success.
C7_AvailabilityIsCurrent ==
    \A e \in DOMAIN entities :
        entities[e]._attr_available = forecast_coordinator.last_update_success

\* C8: setup builds exactly two entities, the first daily and the second
\* hourly, and every forecast entry of the daily one carries the daily
\* fields and every entry of the hourly one the hourly fields.
C8_HorizonFixed ==
    /\ entities # <<>> =>
          /\ Len(entities) = 2
          /\ WEATHER_TYPES[entities[1].description].key = _WEATHER_DAILY
          /\ WEATHER_TYPES[entities[2].description].key = _WEATHER_HOURLY
          /\ entities[1].daily_forecast
          /\ ~entities[2].daily_forecast
    /\ (IsRead("forecast") /\ ret.value.t = "list") =>
          \A i \in DOMAIN ret.value.items :
              DOMAIN ret.value.items[i] =
                  (IF ret.entity = 1 THEN DailyFields ELSE HourlyFields)

C8_Witness ==
    /\ IsRead("forecast")
    /\ ret.entity = 1
    /\ ret.value.t = "list"
    /\ Len(ret.value.items) = MaxLen
    /\ forecast_coordinator.data.forecast_hourly # <<>>
    /\ \A i \in DOMAIN ret.value.items : DOMAIN ret.value.items[i] = DailyFields

C10_ConditionOfObservation ==
    (IsRead("condition") /\ coordinator.data # NoData
        /\ forecast_coordinator.data # NoData) =>
        ret.value = format_condition(coordinator.data.icon)

\* C10, amended: condition depends on the forecast coordinator's snapshot
\* alone: while that snapshot stays, no step (a refresh of the observation
\* snapshot included) changes what condition returns.
C10_ConditionOfForecastSnapshot ==
    [][forecast_coordinator'.data = forecast_coordinator.data =>
          \A e \in DOMAIN entities :
              condition(entities[e])' = condition(entities[e])]_vars

C10_Witness ==
    /\ IsRead("condition")
    /\ coordinator.data # NoData
    /\ forecast_coordinator.data # NoData
    /\ coordinator.data.icon = Str("rainy")
    /\ forecast_coordinator.data.icon = Str("clear-day")
    /\ ret.value = Str("sunny")

=============================================================================
